---- MODULE Spec2Model ----
(***************************************************************************)
(* Turn scheduler of the dialogue orchestrator (useQueueOrchestrator.ts)   *)
(* and the bounded memory store it writes to (lib/memory.ts).              *)
(*                                                                         *)
(* The hook keeps all scheduler state in refs; every handler is            *)
(* synchronous except for the single await on sendMessageToBackend inside  *)
(* processBatchedTasks.  A handler is therefore one atomic action: the     *)
(* enqueue loop with its trailing updateQueueDepths() and drainQueues(),   *)
(* or the continuation after the await together with runQueue's `finally`  *)
(* block (the two are separated by promise microtasks only, before which   *)
(* no event handler, timer or effect can run).                             *)
(***************************************************************************)
EXTENDS Integers, Sequences, FiniteSets, TLC

VARIABLES
    queue,               \* globalQueueRef.current.queue
    pending,             \* globalQueueRef.current.pending (<<>> = no entry)
    processing,          \* processingRef.current
    globallyProcessing,  \* globallyProcessingRef.current
    currentSpeaker,      \* React state currentSpeaker
    queueDepths,         \* React state queueDepths
    queueOrder,          \* React state queueOrder
    processedMessages,   \* processedMessagesRef.current
    memories,            \* memoriesRef.current
    isPaused,            \* isPausedRef.current
    inflight,            \* runQueue instances suspended at the backend call
    genCalls,            \* number of sendMessageToBackend calls made so far
    taskSeq,             \* number of ResponseTasks created so far
    now,                 \* Date.now() read when the last reply was made
    extCalls,            \* number of enqueue calls made by the caller so far
    lastCall,            \* the last enqueue call made by the caller
    log,                 \* what the event sink and the backend have observed
    appended,            \* the messages the host has put into the store, in order
    lockTrace            \* the writes to globallyProcessingRef.current, in order

vars == <<queue, pending, processing, globallyProcessing, currentSpeaker,
          queueDepths, queueOrder, processedMessages, memories, isPaused,
          inflight, genCalls, taskSeq, now, extCalls, lastCall, log, appended,
          lockTrace>>

----------------------------------------------------------------------------
(* Bounds of the model *)

\* enqueue calls made from outside the scheduler
MaxEnqueues == 2
\* replies the backend produces before it only fails
MaxReplies == 1
\* MemoryState.max of the store handed to the hook
MemMax == 2
\* messages a host stores or hands to the scheduler
MaxPrompts == 3
\* replies emitted in a dialogue that cascades from one prompt
MaxCascade == 3

----------------------------------------------------------------------------
(* Identities *)

\* philosopherIds, in table order
philosopherIds == <<"confucius", "laozi", "mozi">>

Range(f) == {f[i] : i \in DOMAIN f}

\* philosopherMap.has(id)
\* mutant: every id passes for a philosopher
philosopherMapHas_Any(id) == TRUE

philosopherMapHas(id) == id \in Range(philosopherIds)

Known == Range(philosopherIds)

\* an id that names no philosopher
Stranger == "zhuangzi"

\* the strings that occur as keys of the refs
Ids == Known \cup {Stranger, "moderator", "all"}

Moderator == "moderator"

All == "all"

\* currentSpeaker === null
Null == "null"

\* message ids: those the caller makes up, and `reply-${philosopherId}-${Date.now()}`
MsgId(k) == <<"msg", "", k>>

ReplyId(who, at) == <<"reply", who, at>>

NoMsg == [id |-> <<"none", "", 0>>, speaker |-> "", recipients |-> <<>>]

----------------------------------------------------------------------------
(* lib/memory.ts *)

\* mutant: the first n elements are kept (slice(0, n)), the newest is dropped
SliceLast_KeepFirst(list, n) ==
    IF n = 0 \/ Len(list) <= n THEN list
    ELSE SubSeq(list, 1, n)

\* Array.prototype.slice(-n): the last n elements; slice(-0) is slice(0)
SliceLast(list, n) ==
    IF n = 0 \/ Len(list) <= n THEN list
    ELSE SubSeq(list, Len(list) - n + 1, Len(list))

\* the MemoryEntry derived from a message
MemoryEntry(message) ==
    [id |-> message.id, speaker |-> message.speaker, recipients |-> message.recipients]

\* store[key] ?? []
Bucket(store, key) == IF key \in DOMAIN store THEN store[key] ELSE <<>>

\* store[key] = list, creating the key when it is missing
SetBucket(store, key, list) ==
    [k \in DOMAIN store \cup {key} |-> IF k = key THEN list ELSE store[k]]

createEmptyMemories(max) ==
    [max |-> max, store |-> [k \in Known \cup {All} |-> <<>>]]

\* the elements of a list without repetition, in order of first occurrence
\* (iteration order of new Set(list))
RECURSIVE Distinct(_)
Distinct(list) ==
    IF list = <<>> THEN <<>>
    ELSE LET init == Distinct(SubSeq(list, 1, Len(list) - 1))
             last == list[Len(list)]
         IN IF last \in Range(init) THEN init ELSE Append(init, last)

RECURSIVE PushTargets(_, _, _, _)
PushTargets(store, targets, entry, max) ==
    IF targets = <<>> THEN store
    ELSE PushTargets(
             SetBucket(store, Head(targets),
                       SliceLast(Append(Bucket(store, Head(targets)), entry), max)),
             Tail(targets), entry, max)

\* mutant: the sentinel 'all' is expanded into the bucket of every philosopher
pushMemoryEntry_ExpandAll(state, message) ==
    LET listed == IF All \in Range(message.recipients)
                  THEN message.recipients \o philosopherIds
                  ELSE message.recipients
        targets == Distinct(Append(listed, All))
    IN [state EXCEPT !.store = PushTargets(state.store, targets,
                                           MemoryEntry(message), state.max)]

\* mutant: the entry is also put into the bucket of the speaker
pushMemoryEntry_AlsoSpeaker(state, message) ==
    LET targets == Distinct(Append(Append(message.recipients, message.speaker), All))
    IN [state EXCEPT !.store = PushTargets(state.store, targets,
                                           MemoryEntry(message), state.max)]

pushMemoryEntry(state, message) ==
    LET targets == Distinct(Append(message.recipients, All))
    IN [state EXCEPT !.store = PushTargets(state.store, targets,
                                           MemoryEntry(message), state.max)]

\* mutant: the first entry of the list is returned
getLatestFor_Oldest(state, philosopherId) ==
    LET list == Bucket(state.store, philosopherId)
    IN IF list = <<>> THEN NoMsg ELSE list[1]

getLatestFor(state, philosopherId) ==
    LET list == Bucket(state.store, philosopherId)
    IN IF list = <<>> THEN NoMsg ELSE list[Len(list)]

getHistoryFor(state, philosopherId) == Bucket(state.store, philosopherId)

----------------------------------------------------------------------------
(* hooks/useQueueOrchestrator.ts: handlers, as functions of the hook state s *)

\* the hook state as one record
St ==
    [queue |-> queue, pending |-> pending, processing |-> processing,
     globallyProcessing |-> globallyProcessing, currentSpeaker |-> currentSpeaker,
     queueDepths |-> queueDepths, queueOrder |-> queueOrder,
     processedMessages |-> processedMessages, memories |-> memories,
     isPaused |-> isPaused, inflight |-> inflight, genCalls |-> genCalls,
     taskSeq |-> taskSeq, now |-> now, log |-> log, lockTrace |-> lockTrace]

\* an entry of the log: a backend call made ("call"), onMessageCreated
\* ("message") or onBackendError ("error"), with the turn it belongs to
Event(ev, turn, msg) ==
    [ev |-> ev, who |-> turn.who, call |-> turn.call,
     batch |-> [i \in DOMAIN turn.tasks |-> turn.tasks[i].id], msg |-> msg]

updateQueueDepths(s) ==
    [s EXCEPT !.queueDepths = [id \in Known |-> Len(s.pending[id])],
              !.queueOrder = s.queue]

\* the synchronous part of processBatchedTasks, up to the backend call
\* (without a philosopher for the first task it returns at once)
processBatchedTasksCall(s, tasks) ==
    LET turn == [who |-> tasks[1].philosopherId, tasks |-> tasks,
                 call |-> s.genCalls + 1]
    IN [s EXCEPT !.genCalls = @ + 1,
                 !.inflight = @ \cup {turn},
                 !.log = Append(@, Event("call", turn, NoMsg))]

\* mutant: runQueue without the global lock check
runQueueGuard_NoLock(s, philosopherId) ==
    /\ ~s.isPaused
    /\ ~s.processing[philosopherId]
    /\ s.pending[philosopherId] # <<>>

\* mutant: runQueue without the pause check
runQueueGuard_NoPause(s, philosopherId) ==
    /\ ~s.globallyProcessing
    /\ ~s.processing[philosopherId]
    /\ s.pending[philosopherId] # <<>>

\* the four guards of runQueue
runQueueGuard(s, philosopherId) ==
    /\ ~s.isPaused
    /\ ~s.globallyProcessing
    /\ ~s.processing[philosopherId]
    /\ s.pending[philosopherId] # <<>>

\* mutant: the pending tasks are deleted, the queue is not filtered
dequeue_KeepQueue(s, philosopherId) ==
    [s EXCEPT !.pending[philosopherId] = <<>>]

\* mutant: only the first pending task is taken out
dequeue_KeepRest(s, philosopherId) ==
    LET Other(id) == id # philosopherId
    IN [s EXCEPT !.queue = IF Len(s.pending[philosopherId]) > 1 THEN @
                           ELSE SelectSeq(@, Other),
                 !.pending[philosopherId] = Tail(@)]

\* mutant: the pending tasks of every philosopher are deleted
dequeue_ClearAll(s, philosopherId) ==
    LET Other(id) == id # philosopherId
    IN [s EXCEPT !.queue = SelectSeq(@, Other),
                 !.pending = [id \in Ids |-> <<>>]]

\* runQueue takes the philosopher out of the queue and its tasks out of pending
dequeue(s, philosopherId) ==
    LET Other(id) == id # philosopherId
    IN [s EXCEPT !.queue = SelectSeq(@, Other),
                 !.pending[philosopherId] = <<>>]

\* mutant: the global lock is not set
acquire_NoLock(s, philosopherId) ==
    [s EXCEPT !.processing[philosopherId] = TRUE,
              !.currentSpeaker = philosopherId,
              !.lockTrace = Append(@, [op |-> "acquire", who |-> philosopherId])]

\* runQueue: the lock, the processing flag and the speaker indicator are set
acquire(s, philosopherId) ==
    [s EXCEPT !.globallyProcessing = TRUE,
              !.processing[philosopherId] = TRUE,
              !.currentSpeaker = philosopherId,
              !.lockTrace = Append(@, [op |-> "acquire", who |-> philosopherId])]

\* mutant: the philosopher's processing flag is left set
release_KeepProcessing(s, philosopherId) ==
    [s EXCEPT !.globallyProcessing = FALSE,
              !.currentSpeaker = Null,
              !.lockTrace = Append(@, [op |-> "release", who |-> philosopherId])]

\* mutant: the speaker indicator is not cleared
release_KeepSpeaker(s, philosopherId) ==
    [s EXCEPT !.processing[philosopherId] = FALSE,
              !.globallyProcessing = FALSE,
              !.lockTrace = Append(@, [op |-> "release", who |-> philosopherId])]

\* the finally block of runQueue, before its drainQueues()
release(s, philosopherId) ==
    [s EXCEPT !.processing[philosopherId] = FALSE,
              !.globallyProcessing = FALSE,
              !.currentSpeaker = Null,
              !.lockTrace = Append(@, [op |-> "release", who |-> philosopherId])]

RECURSIVE runQueue(_, _)
RECURSIVE drainQueues(_)

\* mutant: the finally block does not trigger the next speaker
runQueueFinally_NoDrain(s, philosopherId) == release(s, philosopherId)

\* the finally block of runQueue
runQueueFinally(s, philosopherId) == drainQueues(release(s, philosopherId))

\* runQueue up to the point where `await processBatchedTasks(tasks)` suspends
\* it; when processBatchedTasks returns without calling the backend, the
\* finally block follows at once
runQueue(s, philosopherId) ==
    IF ~runQueueGuard(s, philosopherId) THEN s
    ELSE LET tasks == s.pending[philosopherId]
             s1 == acquire(updateQueueDepths(dequeue(s, philosopherId)),
                           philosopherId)
         IN IF philosopherMapHas(tasks[1].philosopherId)
            THEN processBatchedTasksCall(s1, tasks)
            ELSE runQueueFinally(s1, philosopherId)

\* mutant: the philosopher queued last is run
drainQueues_Newest(s) ==
    IF s.isPaused THEN s
    ELSE IF Len(s.queue) > 0 THEN runQueue(s, s.queue[Len(s.queue)])
    ELSE s

\* mutant: draining reads a stale pause flag (false) and starts the head's turn
drainQueues_IgnorePause(s) ==
    IF Len(s.queue) > 0
    THEN [runQueue([s EXCEPT !.isPaused = FALSE], s.queue[1])
             EXCEPT !.isPaused = s.isPaused]
    ELSE s

drainQueues(s) ==
    IF s.isPaused THEN s
    ELSE IF Len(s.queue) > 0 THEN runQueue(s, s.queue[1])
    ELSE s

\* mutant: the philosopher is pushed to the queue although it is there
enqueueOne_AlwaysPush(s, addresseeId, trigger) ==
    IF ~philosopherMapHas(addresseeId) THEN s
    ELSE LET task == [id |-> s.taskSeq + 1, philosopherId |-> addresseeId,
                      trigger |-> trigger]
         IN [s EXCEPT !.taskSeq = @ + 1,
                      !.pending[addresseeId] = Append(@, task),
                      !.queue = Append(@, addresseeId)]

\* mutant: a philosopher that is addressed again moves to the tail
enqueueOne_MoveToTail(s, addresseeId, trigger) ==
    IF ~philosopherMapHas(addresseeId) THEN s
    ELSE LET task == [id |-> s.taskSeq + 1, philosopherId |-> addresseeId,
                      trigger |-> trigger]
             Other(id) == id # addresseeId
         IN [s EXCEPT !.taskSeq = @ + 1,
                      !.pending[addresseeId] = Append(@, task),
                      !.queue = Append(SelectSeq(@, Other), addresseeId)]

\* mutant: the addressee is not validated
enqueueOne_NoValidation(s, addresseeId, trigger) ==
    LET task == [id |-> s.taskSeq + 1, philosopherId |-> addresseeId,
                 trigger |-> trigger]
    IN [s EXCEPT !.taskSeq = @ + 1,
                 !.pending[addresseeId] = Append(@, task),
                 !.queue = IF addresseeId \in Range(@) THEN @
                           ELSE Append(@, addresseeId)]

\* mutant: no second task is made for a trigger id the philosopher has pending
enqueueOne_DedupeById(s, addresseeId, trigger) ==
    IF ~philosopherMapHas(addresseeId) THEN s
    ELSE IF \E i \in DOMAIN s.pending[addresseeId] :
                s.pending[addresseeId][i].trigger.id = trigger.id
    THEN s
    ELSE LET task == [id |-> s.taskSeq + 1, philosopherId |-> addresseeId,
                      trigger |-> trigger]
         IN [s EXCEPT !.taskSeq = @ + 1,
                      !.pending[addresseeId] = Append(@, task),
                      !.queue = IF addresseeId \in Range(@) THEN @
                                ELSE Append(@, addresseeId)]

\* mutant: a task for a philosopher that is mid-turn joins the running batch
enqueueOne_JoinBatch(s, addresseeId, trigger) ==
    IF ~philosopherMapHas(addresseeId) THEN s
    ELSE LET task == [id |-> s.taskSeq + 1, philosopherId |-> addresseeId,
                      trigger |-> trigger]
         IN IF \E turn \in s.inflight : turn.who = addresseeId
            THEN [s EXCEPT !.taskSeq = @ + 1,
                           !.inflight =
                               {[turn EXCEPT !.tasks =
                                    IF turn.who = addresseeId THEN Append(@, task)
                                    ELSE @] : turn \in @}]
            ELSE [s EXCEPT !.taskSeq = @ + 1,
                           !.pending[addresseeId] = Append(@, task),
                           !.queue = IF addresseeId \in Range(@) THEN @
                                     ELSE Append(@, addresseeId)]

\* the body of addressees.forEach in enqueueWithPriority
enqueueOne(s, addresseeId, trigger) ==
    IF ~philosopherMapHas(addresseeId) THEN s
    ELSE LET task == [id |-> s.taskSeq + 1, philosopherId |-> addresseeId,
                      trigger |-> trigger]
         IN [s EXCEPT !.taskSeq = @ + 1,
                      !.pending[addresseeId] = Append(@, task),
                      !.queue = IF addresseeId \in Range(@) THEN @
                                ELSE Append(@, addresseeId)]

RECURSIVE enqueueEach(_, _, _)
enqueueEach(s, addressees, trigger) ==
    IF addressees = <<>> THEN s
    ELSE enqueueEach(enqueueOne(s, Head(addressees), trigger),
                     Tail(addressees), trigger)

\* mutant: the addressees are taken from the last to the first
enqueueWithPriority_LastFirst(s, addressees, trigger) ==
    LET reversed == [i \in DOMAIN addressees |-> addressees[Len(addressees) - i + 1]]
    IN IF Len(addressees) = 0 THEN s
       ELSE drainQueues(updateQueueDepths(enqueueEach(s, reversed, trigger)))

\* mutant: the tasks are queued, the queue is not drained
enqueueWithPriority_NoDrain(s, addressees, trigger) ==
    IF Len(addressees) = 0 THEN s
    ELSE updateQueueDepths(enqueueEach(s, addressees, trigger))

enqueueWithPriority(s, addressees, trigger) ==
    IF Len(addressees) = 0 THEN s
    ELSE drainQueues(updateQueueDepths(enqueueEach(s, addressees, trigger)))

\* mutant: a broadcast also goes to its speaker
messageTargets_BroadcastToSpeaker(message) ==
    LET Valid(id) == id # message.speaker /\ philosopherMapHas(id)
    IN IF All \in Range(message.recipients)
       THEN philosopherIds
       ELSE SelectSeq(message.recipients, Valid)

\* mutant: a listed recipient that is the speaker is not skipped
messageTargets_ListedSpeaker(message) ==
    LET NotSpeaker(id) == id # message.speaker
    IN IF All \in Range(message.recipients)
       THEN SelectSeq(philosopherIds, NotSpeaker)
       ELSE SelectSeq(message.recipients, philosopherMapHas)

\* the targets enqueueResponsesFromMessage computes
messageTargets(message) ==
    LET NotSpeaker(id) == id # message.speaker
        Valid(id) == id # message.speaker /\ philosopherMapHas(id)
    IN IF All \in Range(message.recipients)
       THEN SelectSeq(philosopherIds, NotSpeaker)
       ELSE SelectSeq(message.recipients, Valid)

\* mutant: a message is marked as processed once it is known to have targets
enqueueResponsesFromMessage_MarkLate(s, message) ==
    IF message.id \in s.processedMessages THEN s
    ELSE LET s1 == [s EXCEPT !.processedMessages = @ \cup {message.id}]
             targets == messageTargets(message)
         IN IF Len(targets) = 0 THEN s
            ELSE enqueueWithPriority(s1, targets, message)

\* mutant: the processed-message set is not consulted
enqueueResponsesFromMessage_NoCheck(s, message) ==
    LET s1 == [s EXCEPT !.processedMessages = @ \cup {message.id}]
        targets == messageTargets(message)
    IN IF Len(targets) = 0 THEN s1
       ELSE enqueueWithPriority(s1, targets, message)

enqueueResponsesFromMessage(s, message) ==
    IF message.id \in s.processedMessages THEN s
    ELSE LET s1 == [s EXCEPT !.processedMessages = @ \cup {message.id}]
             targets == messageTargets(message)
         IN IF Len(targets) = 0 THEN s1
            ELSE enqueueWithPriority(s1, targets, message)

\* Array.from(new Map(tasks.map(t => [t.trigger.id, t.trigger])).values()):
\* one trigger per id, placed where the id occurs first, the value being
\* the trigger of the last task with that id
\* mutant: the triggers are not reduced by id
uniqueTriggers_All(tasks) == [i \in DOMAIN tasks |-> tasks[i].trigger]

uniqueTriggers(tasks) ==
    LET ids == Distinct([i \in DOMAIN tasks |-> tasks[i].trigger.id])
        LastWith(id) ==
            CHOOSE i \in DOMAIN tasks :
                /\ tasks[i].trigger.id = id
                /\ \A j \in DOMAIN tasks : j > i => tasks[j].trigger.id # id
    IN [k \in DOMAIN ids |-> tasks[LastWith(ids[k])].trigger]

\* mutant: the parser's addressees are ignored
replyRecipients_TriggersOnly(addressees, triggers) ==
    Append(Distinct([i \in DOMAIN triggers |-> triggers[i].speaker]), Moderator)

\* mutant: a reply without addressees goes to everybody
replyRecipients_ToAll(addressees, triggers) ==
    IF Len(addressees) > 0 THEN Append(addressees, Moderator)
    ELSE <<All, Moderator>>

\* the recipients of a reply, from the parser's addressees and the triggers
replyRecipients(addressees, triggers) ==
    IF Len(addressees) > 0 THEN Append(addressees, Moderator)
    ELSE Append(Distinct([i \in DOMAIN triggers |-> triggers[i].speaker]), Moderator)

\* replyMessage.recipients.forEach(...) of processBatchedTasks: the reply is
\* appended to the list of every recipient, trimmed to memoriesRef.current.max
RECURSIVE storeReply(_, _, _, _)
storeReply(store, recipients, entry, max) ==
    IF recipients = <<>> THEN store
    ELSE LET newList == Append(Bucket(store, Head(recipients)), entry)
             trimmed == IF Len(newList) > max THEN SliceLast(newList, max)
                        ELSE newList
         IN storeReply(SetBucket(store, Head(recipients), trimmed),
                       Tail(recipients), entry, max)

\* mutant: a turn that finds the scheduler paused drops its reply
processBatchedTasksReply_CancelIfPaused(s, turn, addressees) ==
    LET triggers == uniqueTriggers(turn.tasks)
        replyMessage == [id |-> ReplyId(turn.who, s.now),
                         speaker |-> turn.who,
                         recipients |-> replyRecipients(addressees, triggers)]
        s1 == [s EXCEPT !.log = Append(@, Event("message", turn, replyMessage)),
                        !.memories.store =
                            storeReply(@, replyMessage.recipients,
                                       MemoryEntry(replyMessage), s.memories.max)]
    IN IF s.isPaused THEN s ELSE enqueueResponsesFromMessage(s1, replyMessage)

\* mutant: the reply is stored into a store that has only the empty buckets
\* of the philosophers
processBatchedTasksReply_FreshStore(s, turn, addressees) ==
    LET triggers == uniqueTriggers(turn.tasks)
        replyMessage == [id |-> ReplyId(turn.who, s.now),
                         speaker |-> turn.who,
                         recipients |-> replyRecipients(addressees, triggers)]
        s1 == [s EXCEPT !.log = Append(@, Event("message", turn, replyMessage)),
                        !.memories.store =
                            storeReply(createEmptyMemories(s.memories.max).store,
                                       replyMessage.recipients,
                                       MemoryEntry(replyMessage), s.memories.max)]
    IN enqueueResponsesFromMessage(s1, replyMessage)

\* processBatchedTasks after the backend answered: the reply is made,
\* emitted, stored and fanned out
processBatchedTasksReply(s, turn, addressees) ==
    LET triggers == uniqueTriggers(turn.tasks)
        replyMessage == [id |-> ReplyId(turn.who, s.now),
                         speaker |-> turn.who,
                         recipients |-> replyRecipients(addressees, triggers)]
        s1 == [s EXCEPT !.log = Append(@, Event("message", turn, replyMessage)),
                        !.memories.store =
                            storeReply(@, replyMessage.recipients,
                                       MemoryEntry(replyMessage), s.memories.max)]
    IN enqueueResponsesFromMessage(s1, replyMessage)

\* mutant: the error is swallowed
processBatchedTasksCatch_Silent(s, turn) == s

\* mutant: the failed batch is put back for a retry
processBatchedTasksCatch_Requeue(s, turn) ==
    [s EXCEPT !.log = Append(@, Event("error", turn, NoMsg)),
              !.pending[turn.who] = turn.tasks \o @,
              !.queue = IF turn.who \in Range(@) THEN @ ELSE Append(@, turn.who)]

\* mutant: the failure is stored for the moderator and its id is processed
processBatchedTasksCatch_Record(s, turn) ==
    LET failure == [id |-> ReplyId(turn.who, s.now), speaker |-> turn.who,
                    recipients |-> <<Moderator>>]
    IN [s EXCEPT !.log = Append(@, Event("error", turn, NoMsg)),
                 !.processedMessages = @ \cup {failure.id},
                 !.memories.store =
                     storeReply(@, failure.recipients, MemoryEntry(failure),
                                s.memories.max)]

\* the catch block of processBatchedTasks
processBatchedTasksCatch(s, turn) ==
    [s EXCEPT !.log = Append(@, Event("error", turn, NoMsg))]

\* mutant: the effect only stores the flag, unpausing does not drain
setPaused_NoDrain(s, paused) == [s EXCEPT !.isPaused = paused]

\* mutant: resuming gives up the turn that waits and frees the lock
setPaused_Unlock(s, paused) ==
    LET s1 == [s EXCEPT !.isPaused = paused]
    IN IF ~paused
       THEN drainQueues([s1 EXCEPT !.globallyProcessing = FALSE,
                                   !.processing = [id \in Ids |-> FALSE],
                                   !.currentSpeaker = Null])
       ELSE s1

\* useEffect(..., [isPaused])
setPaused(s, paused) ==
    LET s1 == [s EXCEPT !.isPaused = paused]
    IN IF ~paused THEN drainQueues(s1) ELSE s1

----------------------------------------------------------------------------
(* What the caller, the backend and the clock can do *)

\* ids of the messages the caller makes up
MsgIds == {MsgId(1), MsgId(2)}

\* addressee lists handed to enqueueWithPriority: two lists that share a
\* philosopher, a list with an unknown id and a repeated id, the empty list
AddresseeLists ==
    {<<"laozi", "mozi">>, <<"mozi", "confucius">>,
     <<Stranger, "mozi", "mozi">>, <<>>}

\* triggers handed to enqueueWithPriority
Triggers ==
    {[id |-> MsgId(1), speaker |-> Moderator, recipients |-> <<All>>],
     [id |-> MsgId(2), speaker |-> "laozi", recipients |-> <<All>>]}

\* the calls of enqueueWithPriority: each addressee list with one trigger,
\* so that lists sharing a philosopher come with different triggers and
\* with the same trigger
EnqueueCalls ==
    {c \in AddresseeLists \X Triggers :
        \/ c[2].id = MsgId(1) /\ c[1] \in {<<"laozi", "mozi">>, <<Stranger, "mozi", "mozi">>}
        \/ c[2].id = MsgId(2) /\ c[1] \in {<<"mozi", "confucius">>, <<>>}}

\* messages handed to enqueueResponsesFromMessage: a broadcast of the
\* moderator, a message of a philosopher to itself and another one under the
\* same id, and a message to nobody the scheduler knows
Messages ==
    {[id |-> MsgId(1), speaker |-> Moderator, recipients |-> <<All>>],
     [id |-> MsgId(1), speaker |-> "confucius", recipients |-> <<"confucius", "laozi">>],
     [id |-> MsgId(2), speaker |-> "mozi", recipients |-> <<Stranger, "mozi">>]}

\* addressee lists parseModelResponse can return (none: <<>>)
ParsedAddressees == {<<>>, <<"mozi", "confucius">>}

\* number of replies emitted so far
Replies(l) == Cardinality({i \in DOMAIN l : l[i].ev = "message"})

\* what is remembered of a call of the caller: the operation, its arguments,
\* and whether the message id had been processed before the call
Call(op, addressees, message) ==
    [op |-> op, addressees |-> addressees, message |-> message,
     seen |-> message.id \in processedMessages]

NoCall == [op |-> "none", addressees |-> <<>>, message |-> NoMsg, seen |-> FALSE]

Commit(s) ==
    /\ queue' = s.queue
    /\ pending' = s.pending
    /\ processing' = s.processing
    /\ globallyProcessing' = s.globallyProcessing
    /\ currentSpeaker' = s.currentSpeaker
    /\ queueDepths' = s.queueDepths
    /\ queueOrder' = s.queueOrder
    /\ processedMessages' = s.processedMessages
    /\ memories' = s.memories
    /\ isPaused' = s.isPaused
    /\ inflight' = s.inflight
    /\ genCalls' = s.genCalls
    /\ taskSeq' = s.taskSeq
    /\ now' = s.now
    /\ log' = s.log
    /\ lockTrace' = s.lockTrace

Init ==
    /\ queue = <<>>
    /\ pending = [id \in Ids |-> <<>>]
    /\ processing = [id \in Ids |-> FALSE]
    /\ globallyProcessing = FALSE
    /\ currentSpeaker = Null
    /\ queueDepths = [id \in Known |-> 0]
    /\ queueOrder = <<>>
    /\ processedMessages = {}
    /\ memories = createEmptyMemories(MemMax)
    /\ isPaused \in BOOLEAN
    /\ inflight = {}
    /\ genCalls = 0
    /\ taskSeq = 0
    /\ now = 0
    /\ extCalls = 0
    /\ lastCall = NoCall
    /\ log = <<>>
    /\ appended = <<>>
    /\ lockTrace = <<>>

EnqueueWithPriority ==
    \E c \in EnqueueCalls :
      LET addressees == c[1]
          trigger == c[2]
      IN
        /\ extCalls < MaxEnqueues
        /\ extCalls' = extCalls + 1
        /\ lastCall' = Call("enqueueWithPriority", addressees, trigger)
        /\ Commit(enqueueWithPriority(St, addressees, trigger))
        /\ UNCHANGED appended

EnqueueResponsesFromMessage ==
    \E message \in Messages :
        /\ extCalls < MaxEnqueues
        /\ extCalls' = extCalls + 1
        /\ lastCall' = Call("enqueueResponsesFromMessage", <<>>, message)
        /\ Commit(enqueueResponsesFromMessage(St, message))
        /\ UNCHANGED appended

DrainQueues ==
    /\ Commit(drainQueues(St))
    /\ UNCHANGED <<extCalls, lastCall, appended>>

SetPaused ==
    \E paused \in BOOLEAN :
        /\ paused # isPaused
        /\ Commit(setPaused(St, paused))
        /\ UNCHANGED <<extCalls, lastCall, appended>>

\* the backend call of a turn resolves; since the previous reply was made
\* the millisecond clock has advanced (elapsed = 1) or not (elapsed = 0);
\* the first reply is made at time 1
ResolveOf(turn, addressees, elapsed) ==
    /\ Commit(runQueueFinally(
           processBatchedTasksReply(
               [St EXCEPT !.inflight = @ \ {turn}, !.now = @ + elapsed],
               turn, addressees),
           turn.who))
    /\ UNCHANGED <<extCalls, lastCall, appended>>

BackendResolve ==
    \E turn \in inflight, addressees \in ParsedAddressees,
       elapsed \in (IF Replies(log) = 0 THEN {1} ELSE {0, 1}) :
        /\ Replies(log) < MaxReplies
        /\ ResolveOf(turn, addressees, elapsed)

\* the backend call of a turn rejects
RejectOf(turn) ==
    /\ Commit(runQueueFinally(
           processBatchedTasksCatch([St EXCEPT !.inflight = @ \ {turn}], turn),
           turn.who))
    /\ UNCHANGED <<extCalls, lastCall, appended>>

BackendReject == \E turn \in inflight : RejectOf(turn)

Next ==
    \/ EnqueueWithPriority
    \/ EnqueueResponsesFromMessage
    \/ DrainQueues
    \/ SetPaused
    \/ BackendResolve
    \/ BackendReject

Spec == Init /\ [][Next]_vars

\* the promise of sendMessageToBackend settles: a turn that waits for the
\* backend is eventually resumed, by the rejection or by the reply
LiveSpec == Init /\ [][Next]_vars /\ WF_vars(BackendReject \/ BackendResolve)

----------------------------------------------------------------------------
(* The host of the hook: it puts messages into the store with              *)
(* pushMemoryEntry (the store reaches the hook through the `memories` prop) *)
(* and hands messages to enqueueResponsesFromMessage.                       *)

\* the messages of a host: broadcasts of the moderator and of a philosopher,
\* a list that names a recipient and the sentinel, a list with a repeated
\* recipient and the speaker itself, a list without a philosopher other
\* than the speaker, and the empty list
HostMessages ==
    {[id |-> MsgId(1), speaker |-> Moderator, recipients |-> <<All>>],
     [id |-> MsgId(2), speaker |-> "laozi", recipients |-> <<All>>],
     [id |-> MsgId(3), speaker |-> "laozi", recipients |-> <<"mozi", All>>],
     [id |-> MsgId(4), speaker |-> "confucius",
      recipients |-> <<"mozi", "confucius", "laozi", "mozi">>],
     [id |-> MsgId(5), speaker |-> "confucius", recipients |-> <<"confucius", Stranger>>],
     [id |-> MsgId(5), speaker |-> "mozi", recipients |-> <<"confucius", Stranger>>],
     [id |-> MsgId(6), speaker |-> "mozi", recipients |-> <<>>]}

\* the hook after construction, with a store of any cap up to MemMax
HostInit ==
    /\ queue = <<>>
    /\ pending = [id \in Ids |-> <<>>]
    /\ processing = [id \in Ids |-> FALSE]
    /\ globallyProcessing = FALSE
    /\ currentSpeaker = Null
    /\ queueDepths = [id \in Known |-> 0]
    /\ queueOrder = <<>>
    /\ processedMessages = {}
    /\ \E max \in 1..MemMax : memories = createEmptyMemories(max)
    /\ isPaused \in BOOLEAN
    /\ inflight = {}
    /\ genCalls = 0
    /\ taskSeq = 0
    /\ now = 0
    /\ extCalls = 0
    /\ lastCall = NoCall
    /\ log = <<>>
    /\ appended = <<>>
    /\ lockTrace = <<>>

\* the host stores a message
PushMemoryEntry ==
    \E message \in HostMessages :
        /\ extCalls + Len(appended) < MaxPrompts
        /\ memories' = pushMemoryEntry(memories, message)
        /\ appended' = Append(appended, message)
        /\ UNCHANGED <<queue, pending, processing, globallyProcessing,
                       currentSpeaker, queueDepths, queueOrder, processedMessages,
                       isPaused, inflight, genCalls, taskSeq, now, extCalls,
                       lastCall, log, lockTrace>>

\* the host hands a message to the scheduler
ReceiveMessage ==
    \E message \in HostMessages :
        /\ extCalls + Len(appended) < MaxPrompts
        /\ extCalls' = extCalls + 1
        /\ lastCall' = Call("enqueueResponsesFromMessage", <<>>, message)
        /\ Commit(enqueueResponsesFromMessage(St, message))
        /\ UNCHANGED appended

HostNext ==
    \/ PushMemoryEntry
    \/ ReceiveMessage

HostSpec == HostInit /\ [][HostNext]_vars

----------------------------------------------------------------------------
(* A dialogue: the moderator's prompt is handed to the scheduler, and the   *)
(* replies of the philosophers cascade from it.                             *)

\* the prompt of the moderator (handlePrompt: recipients ['all'])
Prompt == [id |-> MsgId(1), speaker |-> Moderator, recipients |-> <<All>>]

\* addressee lists parseModelResponse returns in the dialogue: none, and
\* lists of two philosophers in an order other than the table's
CascadeAddressees == {<<>>, <<"mozi", "laozi">>, <<"mozi", "confucius">>}

\* the scheduler is running when the dialogue starts
CascadeInit == Init /\ ~isPaused

CascadePrompt ==
    /\ extCalls = 0
    /\ extCalls' = extCalls + 1
    /\ lastCall' = Call("enqueueResponsesFromMessage", <<>>, Prompt)
    /\ Commit(enqueueResponsesFromMessage(St, Prompt))
    /\ UNCHANGED appended

\* the backend call of a turn resolves in the dialogue
CascadeResolve ==
    \E turn \in inflight, addressees \in CascadeAddressees,
       elapsed \in (IF Replies(log) = 0 THEN {1} ELSE {0, 1}) :
        /\ Replies(log) < MaxCascade
        /\ ResolveOf(turn, addressees, elapsed)

CascadeNext ==
    \/ CascadePrompt
    \/ SetPaused
    \/ CascadeResolve
    \/ BackendReject

CascadeSpec == CascadeInit /\ [][CascadeNext]_vars

\* the dialogue with a backend whose calls settle
CascadeLiveSpec ==
    CascadeInit /\ [][CascadeNext]_vars /\ WF_vars(BackendReject \/ CascadeResolve)

----------------------------------------------------------------------------
(* A dialogue during which the host keeps storing messages: the store       *)
(* reaches memoriesRef through the `memories` prop while a backend call is  *)
(* in flight.                                                               *)

MemoryInit == HostInit /\ ~isPaused

\* the host stores a message while a turn waits for the backend
PushInFlight == inflight # {} /\ PushMemoryEntry

MemoryNext ==
    \/ CascadePrompt
    \/ PushInFlight
    \/ BackendResolve
    \/ BackendReject

MemorySpec == MemoryInit /\ [][MemoryNext]_vars

----------------------------------------------------------------------------
(* The moderator's prompt with a backend whose answers name nobody: the     *)
(* parser returns no addressees for any reply.                              *)

\* recipient lists the moderator can pick for the prompt (never empty)
PromptRecipients == {<<All>>, <<"mozi">>, <<"laozi", "confucius">>, <<"mozi", All>>}

\* the moderator's prompt, to the recipients picked
QuietPrompt ==
    \E recipients \in PromptRecipients :
        LET message == [id |-> MsgId(1), speaker |-> Moderator,
                        recipients |-> recipients]
        IN /\ extCalls = 0
           /\ extCalls' = extCalls + 1
           /\ lastCall' = Call("enqueueResponsesFromMessage", <<>>, message)
           /\ Commit(enqueueResponsesFromMessage(St, message))
           /\ UNCHANGED appended

QuietResolve ==
    \E turn \in inflight,
       elapsed \in (IF Replies(log) = 0 THEN {1} ELSE {0, 1}) :
        /\ Replies(log) < MaxCascade
        /\ ResolveOf(turn, <<>>, elapsed)

QuietNext ==
    \/ QuietPrompt
    \/ SetPaused
    \/ QuietResolve
    \/ BackendReject

QuietSpec == CascadeInit /\ [][QuietNext]_vars

\* every generation call settles
QuietLiveSpec ==
    CascadeInit /\ [][QuietNext]_vars /\ WF_vars(BackendReject \/ QuietResolve)

----------------------------------------------------------------------------
(* Properties *)

\* the philosophers that are mid-turn: dequeued, batch owned, flag set
Active == {turn.who : turn \in inflight} \cup {id \in Ids : processing[id]}

\* number of occurrences of x in a list
Count(list, x) == Cardinality({i \in DOMAIN list : list[i] = x})

IsPrefix(a, b) == Len(a) <= Len(b) /\ SubSeq(b, 1, Len(a)) = a

\* the hook state after the step
StNext == St'

\* C1: in every reachable state at most one philosopher is Active: there is
\* at most one turn waiting for the backend, at most one processing flag is
\* set, and a turn that waits for the backend holds the global lock.
C1_OneActive ==
    /\ Cardinality(inflight) <= 1
    /\ Cardinality(Active) <= 1
    /\ inflight # {} => globallyProcessing

\* a philosopher is Active while another one is at the head of the queue of
\* a scheduler that is not paused, after two enqueue calls
C1_Witness ==
    /\ ~isPaused
    /\ extCalls = 2
    /\ \E turn \in inflight : queue # <<>> /\ queue[1] # turn.who

\* C2: the queue (`order`) contains each philosopher id at most once, also
\* after an addressee list that names the same philosopher twice.
C2_OrderDistinct ==
    \A i, j \in DOMAIN queue : i # j => queue[i] # queue[j]

\* one call whose addressee list named mozi twice has queued mozi with two tasks
C2_Witness ==
    /\ lastCall.op = "enqueueWithPriority"
    /\ Count(lastCall.addressees, "mozi") = 2
    /\ extCalls = 1
    /\ Count(queue, "mozi") = 1
    /\ Len(pending["mozi"]) = 2

\* C3: a philosopher id is in the queue (`order`) if and only if its pending
\* task list is not empty.
C3_OrderIffPending ==
    \A id \in Ids : (id \in Range(queue)) <=> (pending[id] # <<>>)

\* one philosopher has been dequeued for its turn, another one is waiting
\* with its tasks pending
C3_Witness ==
    \E turn \in inflight :
        /\ pending[turn.who] = <<>>
        /\ \E id \in Known : id # turn.who /\ id \in Range(queue) /\ Len(pending[id]) = 2

\* a step in which the caller calls enqueueResponsesFromMessage with a
\* message whose id has been processed before
RepeatedMessage ==
    /\ extCalls' = extCalls + 1
    /\ lastCall'.op = "enqueueResponsesFromMessage"
    /\ lastCall'.message.id \in processedMessages

\* C4: enqueueResponsesFromMessage is idempotent per message id: a call with
\* an id that has been processed creates no task, changes neither the queue
\* nor pending, and starts no turn (nothing of the hook state changes).
C4_Idempotent == [][RepeatedMessage => StNext = St]_vars

\* the second of two calls carried a processed id and a message that has
\* targets, and only the first call made tasks
C4_Witness ==
    /\ extCalls = 2
    /\ lastCall.op = "enqueueResponsesFromMessage"
    /\ lastCall.seen
    /\ Len(messageTargets(lastCall.message)) > 0
    /\ taskSeq \in {1, 3}

\* a step in which the caller calls enqueueWithPriority
EnqueueStep ==
    /\ extCalls' = extCalls + 1
    /\ lastCall'.op = "enqueueWithPriority"

\* C5: an enqueueWithPriority call during which no turn starts keeps every
\* queued philosopher at its position (the queue before is a prefix of the
\* queue after, a newly named philosopher is appended at the tail) and adds
\* to the depth of each philosopher one task per occurrence in the list; so
\* after two such calls that share X, X is where the first call put it and
\* its depth is the sum of the tasks of both calls.
C5_PositionAndDepth ==
    [][(EnqueueStep /\ genCalls' = genCalls) =>
          /\ IsPrefix(queue, queue')
          /\ \A id \in Known :
                /\ Len(pending'[id]) = Len(pending[id]) + Count(lastCall'.addressees, id)
                /\ queueDepths'[id] = Len(pending'[id])
                /\ Count(lastCall'.addressees, id) > 0 => id \in Range(queue')
          /\ queueOrder' = queue']_vars

\* the scenario of the test: <<laozi, mozi>> then <<mozi, confucius>>, no turn
C5_Witness ==
    /\ extCalls = 2
    /\ genCalls = 0
    /\ lastCall.op = "enqueueWithPriority"
    /\ lastCall.addressees = <<"mozi", "confucius">>
    /\ queueOrder = <<"laozi", "mozi", "confucius">>
    /\ queueDepths = [id \in Known |-> IF id = "mozi" THEN 2 ELSE 1]

\* C6: ids that are not philosophers are dropped by enqueueWithPriority: no
\* task and no queue entry is made for them, and the call leaves the hook in
\* the state the same call without the unknown ids leaves it in.
C6_UnknownDropped ==
    [][EnqueueStep =>
          LET valid == SelectSeq(lastCall'.addressees, philosopherMapHas)
          IN /\ \A id \in Ids \ Known :
                   id \notin Range(queue') /\ pending'[id] = <<>>
             /\ StNext = enqueueWithPriority(St, valid, lastCall'.message)]_vars

\* a list with an unknown id has queued its known philosopher
C6_Witness ==
    /\ extCalls = 1
    /\ lastCall.op = "enqueueWithPriority"
    /\ Stranger \in Range(lastCall.addressees)
    /\ queueOrder = <<"mozi">>
    /\ queueDepths["mozi"] = 2

\* indices of the log entries of a kind that belong to a backend call
Entries(l, ev, call) == {i \in DOMAIN l : l[i].ev = ev /\ l[i].call = call}

\* indices of the log entries of a kind
EntriesOf(l, ev) == {i \in DOMAIN l : l[i].ev = ev}

TaskIds(tasks) == {tasks[i].id : i \in DOMAIN tasks}

\* no task is in the batches of two backend calls
BatchesDisjoint(l) ==
    \A i, j \in EntriesOf(l, "call") :
        i # j => Range(l[i].batch) \cap Range(l[j].batch) = {}

\* C7: when a turn starts, everything pending for its philosopher goes into
\* one batch: the step makes exactly one backend call, the batch holds the
\* tasks that were pending (and those of the call that starts the turn),
\* nothing stays pending and the depth is 0; the batch gets at most one reply
\* and no task is sent to the backend twice.
C7_OneBatch ==
    [][/\ Cardinality(inflight' \ inflight) <= 1
       /\ \A turn \in inflight' \ inflight :
             /\ genCalls' = genCalls + 1
             /\ turn.call = genCalls'
             /\ Cardinality(Entries(log', "call", turn.call)) = 1
             /\ IsPrefix(pending[turn.who], turn.tasks)
             /\ \A i \in DOMAIN turn.tasks : turn.tasks[i].philosopherId = turn.who
             /\ pending'[turn.who] = <<>>
             /\ queueDepths'[turn.who] = 0
       /\ inflight' \ inflight = {} => genCalls' = genCalls
       /\ \A turn \in inflight \ inflight' :
             Cardinality(Entries(log', "message", turn.call)) <= 1
       /\ BatchesDisjoint(log')]_vars

\* two enqueue calls with different triggers, one turn with a batch of both
C7_Witness ==
    /\ extCalls = 2
    /\ genCalls = 1
    /\ \E turn \in inflight :
          /\ Len(turn.tasks) = 2
          /\ turn.tasks[1].trigger.id # turn.tasks[2].trigger.id
          /\ queueDepths[turn.who] = 0

\* the turn that starts for the head of the queue when a turn ends
NextTurn == [who |-> queue[1], tasks |-> pending[queue[1]], call |-> genCalls + 1]

\* C8: when the backend call of X's turn fails while the scheduler is not
\* paused and Y is at the head of the queue, the same step starts Y's turn
\* with everything pending for Y, and no other turn; Y's turn can then
\* succeed and emit its reply (C8_Witness).
C8_FailureIsolated ==
    [][\A turn \in inflight :
          (RejectOf(turn) /\ ~isPaused /\ queue # <<>>) =>
              /\ inflight' = {NextTurn}
              /\ currentSpeaker' = queue[1]
              /\ log'[Len(log')] = Event("call", NextTurn, NoMsg)]_vars

\* X's call failed, Y's turn started next and Y's reply was emitted
C8_Witness ==
    \E i \in DOMAIN log :
        /\ i + 2 \in DOMAIN log
        /\ log[i].ev = "error"
        /\ log[i + 1].ev = "call"
        /\ log[i + 1].who # log[i].who
        /\ log[i + 2].ev = "message"
        /\ log[i + 2].call = log[i + 1].call
        /\ log[i + 2].msg.speaker = log[i + 1].who

\* what a failed backend call of a turn reports: onBackendError once, naming
\* the philosopher of the turn, and no reply
ErrorReported(turn) ==
    /\ Cardinality(Entries(log', "error", turn.call)) = 1
    /\ \A i \in Entries(log', "error", turn.call) : log'[i].who = turn.who
    /\ Cardinality(EntriesOf(log', "error")) = Cardinality(EntriesOf(log, "error")) + 1
    /\ Entries(log', "message", turn.call) = {}
    /\ EntriesOf(log', "message") = EntriesOf(log, "message")
    /\ turn \notin inflight'

\* C9 as claimed: after a failed turn the lock is free and the speaker
\* indicator is null.
C9_LockFreeAfterFailure ==
    [][\A turn \in inflight :
          RejectOf(turn) =>
              /\ ErrorReported(turn)
              /\ ~globallyProcessing'
              /\ currentSpeaker' = Null]_vars

\* C9, amended: a failed turn reports onBackendError exactly once, naming
\* its philosopher, and emits no reply; its finally block frees the lock and
\* clears the speaker indicator, and they are free and null after the step
\* exactly when no turn can follow (the scheduler is paused or the queue is
\* empty); otherwise the drainQueues() of the same finally block has handed
\* both to the turn of the head of the queue.
C9_FailureReported ==
    [][\A turn \in inflight :
          RejectOf(turn) =>
              /\ ErrorReported(turn)
              /\ IF isPaused \/ queue = <<>>
                 THEN /\ ~globallyProcessing'
                      /\ currentSpeaker' = Null
                      /\ inflight' = {}
                      /\ \A id \in Ids : ~processing'[id]
                 ELSE /\ globallyProcessing'
                      /\ currentSpeaker' = queue[1]
                      /\ inflight' = {NextTurn}
                      /\ \A id \in Ids : processing'[id] <=> id = queue[1]]_vars

\* a turn has failed, nothing could follow it, the lock is free
C9_Witness ==
    /\ log # <<>>
    /\ log[Len(log)].ev = "error"
    /\ ~globallyProcessing
    /\ currentSpeaker = Null
    /\ inflight = {}

\* the tasks of failed batches are gone: none is pending, none is in the
\* batch of another backend call, and a later turn of the same philosopher
\* has only tasks that were made after those of the failed batch
Abandoned(l, pend) ==
    \A i \in EntriesOf(l, "error") :
        /\ \A id \in Ids : TaskIds(pend[id]) \cap Range(l[i].batch) = {}
        /\ \A j \in EntriesOf(l, "call") :
              l[j].call # l[i].call =>
                  /\ Range(l[j].batch) \cap Range(l[i].batch) = {}
                  /\ (j > i /\ l[j].who = l[i].who) =>
                        \A old \in Range(l[i].batch), new \in Range(l[j].batch) :
                            new > old

\* C10: a failed batch is abandoned: the failure puts no task back into
\* pending and does not put the philosopher into the queue, none of its
\* tasks is ever sent to the backend again, and the philosopher gets
\* another turn only for tasks of a new enqueue.
C10_Abandoned ==
    [][/\ \A turn \in inflight :
             RejectOf(turn) =>
                 /\ Len(pending'[turn.who]) <= Len(pending[turn.who])
                 /\ turn.who \in Range(queue') => turn.who \in Range(queue)
                 /\ genCalls' > genCalls => queue # <<>> /\ inflight' = {NextTurn}
       /\ Abandoned(log', pending')]_vars

\* a philosopher whose batch failed was addressed again and got a second
\* turn, with a batch of new tasks
C10_Witness ==
    \E i, j \in DOMAIN log :
        /\ i < j
        /\ log[i].ev = "error"
        /\ log[j].ev = "call"
        /\ log[j].who = log[i].who
        /\ Range(log[j].batch) \cap Range(log[i].batch) = {}

\* the tasks created by the step: those with the serial numbers handed out
NewTaskIds == (taskSeq + 1)..taskSeq'

\* task k is pending for its philosopher, which is in the queue, after the step
PendingQueued(k) ==
    \E id \in Known :
        /\ id \in Range(queue')
        /\ \E i \in DOMAIN pending'[id] :
              pending'[id][i].id = k /\ pending'[id][i].philosopherId = id

\* C11: while the scheduler is paused no turn starts: a step taken while
\* paused that does not unpause (an enqueue, a drain, a settling backend
\* call) makes no backend call, does not take the lock if it was free, takes
\* nothing out of pending, and every task it creates is pending for its
\* philosopher with the philosopher in the queue.
C11_PausedNoTurn ==
    [][(isPaused /\ isPaused') =>
          /\ genCalls' = genCalls
          /\ inflight' \subseteq inflight
          /\ ~globallyProcessing => ~globallyProcessing' /\ currentSpeaker' = Null
          /\ \A id \in Ids : IsPrefix(pending[id], pending'[id])
          /\ IsPrefix(queue, queue')
          /\ \A k \in NewTaskIds : PendingQueued(k)]_vars

\* two enqueue calls were made while paused: no backend call, the lock is
\* free, the tasks are pending and their philosophers queued
C11_Witness ==
    /\ isPaused
    /\ extCalls = 2
    /\ genCalls = 0
    /\ ~globallyProcessing
    /\ taskSeq >= 3
    /\ Len(queue) >= 2
    /\ \A id \in Range(queue) : pending[id] # <<>>

\* a turn of the philosopher is waiting for the backend
TurnOf(id) == \E turn \in inflight : turn.who = id

\* the backend calls made so far, in order
Calls(l) ==
    LET IsCall(e) == e.ev = "call"
    IN SelectSeq(l, IsCall)

\* C12: unpausing with philosophers queued starts the turn of the head of
\* the queue at once (if no turn is in flight); from then on, as long as the
\* scheduler is not paused again and every backend call settles, every
\* queued philosopher eventually gets its turn; turns are started from the
\* head of the queue and the queue keeps the order of those still waiting,
\* so the turns start in the order the queue had when it was unpaused.
C12_ResumeRunsQueued ==
    /\ \A id \in Known :
          (~isPaused /\ id \in Range(queue)) ~> (isPaused \/ TurnOf(id))
    /\ [][/\ (isPaused /\ ~isPaused' /\ queue # <<>> /\ ~globallyProcessing) =>
                (inflight' = {NextTurn} /\ queue' = Tail(queue))
           /\ (\A turn \in inflight' \ inflight :
                  queue # <<>> => (turn.who = queue[1] /\ IsPrefix(Tail(queue), queue')))
           /\ (inflight' \ inflight = {} => IsPrefix(queue, queue'))]_vars

\* <<mozi, confucius>> and <<laozi, mozi>> were enqueued while paused (the
\* first backend call ever made carries tasks of both calls); after the
\* unpause the turns started in the order mozi, confucius, laozi
C12_Witness ==
    /\ ~isPaused
    /\ Len(Calls(log)) = 3
    /\ Calls(log)[1].who = "mozi"
    /\ Calls(log)[1].batch = <<1, 4>>
    /\ Calls(log)[2].who = "confucius"
    /\ Calls(log)[3].who = "laozi"

\* the last entry of the log after the step
LastEvent == log'[Len(log')]

\* the reply of the turn was emitted by the step, stored in the list of each
\* of its recipients and, unless its id was processed before, fanned out:
\* every target has a task triggered by it at the end of its pending list
\* and is in the queue
ReplyCompleted(turn) ==
    LET m == LastEvent.msg
    IN /\ LastEvent.ev = "message"
       /\ LastEvent.call = turn.call
       /\ m.speaker = turn.who
       /\ \A r \in Range(m.recipients) : getLatestFor(memories', r) = MemoryEntry(m)
       /\ m.id \in processedMessages'
       /\ m.id \notin processedMessages =>
             \A target \in Range(messageTargets(m)) :
                 /\ target \in Range(queue')
                 /\ pending'[target] # <<>>
                 /\ pending'[target][Len(pending'[target])].trigger = m

\* C13: a turn that is in flight when the scheduler is paused is not
\* cancelled: when its backend call settles, the turn completes (the reply
\* is emitted, stored and fanned out, or the error is reported), the lock
\* and the speaker indicator are released and no turn starts; while paused,
\* only the step that unpauses starts a turn.
C13_PauseKeepsTurn ==
    [][/\ \A turn \in inflight :
             (isPaused /\ turn \notin inflight') =>
                 /\ isPaused'
                 /\ inflight' = {}
                 /\ genCalls' = genCalls
                 /\ ~globallyProcessing'
                 /\ ~processing'[turn.who]
                 /\ currentSpeaker' = Null
                 /\ Len(log') = Len(log) + 1
                 /\ ReplyCompleted(turn) \/ LastEvent = Event("error", turn, NoMsg)
       /\ (isPaused /\ genCalls' > genCalls) => ~isPaused']_vars

\* the only turn so far ended with its reply while the scheduler was paused:
\* the lock is free although the reply's targets are queued with their tasks
C13_Witness ==
    /\ isPaused
    /\ genCalls = 1
    /\ inflight = {}
    /\ ~globallyProcessing
    /\ currentSpeaker = Null
    /\ log # <<>>
    /\ log[Len(log)].ev = "message"
    /\ \E target \in Range(queue) :
          pending[target][Len(pending[target])].trigger = log[Len(log)].msg

\* a step in which the caller hands enqueueResponsesFromMessage a message
\* whose id has not been processed
FreshMessage ==
    /\ extCalls' = extCalls + 1
    /\ lastCall'.op = "enqueueResponsesFromMessage"
    /\ ~lastCall'.seen

\* the turns the step starts
Started == inflight' \ inflight

\* the tasks a philosopher holds after the step: the batch of the turn the
\* step started for it, then its pending list
TasksAfter(id) ==
    IF \E turn \in Started : turn.who = id
    THEN (CHOOSE turn \in Started : turn.who = id).tasks \o pending'[id]
    ELSE pending'[id]

\* the queue after the step, with the philosopher whose turn the step
\* started (taken from the head) put back
OrderAfter ==
    IF Started = {} THEN queue'
    ELSE <<(CHOOSE turn \in Started : TRUE).who>> \o queue'

\* the philosopher got exactly one more task by the step, triggered by m
OneTaskMore(id, m) ==
    /\ Len(TasksAfter(id)) = Len(pending[id]) + 1
    /\ IsPrefix(pending[id], TasksAfter(id))
    /\ TasksAfter(id)[Len(TasksAfter(id))].trigger = m
    /\ TasksAfter(id)[Len(TasksAfter(id))].philosopherId = id

\* C14: for a message with an unprocessed id whose recipients contain
\* 'all', enqueueResponsesFromMessage makes exactly one task for every
\* philosopher other than the speaker and none for the speaker, and the
\* philosophers that were not queued enter the queue in table order.
C14_Broadcast ==
    [][(FreshMessage /\ All \in Range(lastCall'.message.recipients)) =>
          LET m == lastCall'.message
              NewlyQueued(id) == id # m.speaker /\ id \notin Range(queue)
          IN /\ \A id \in Known \ {m.speaker} : OneTaskMore(id, m)
             /\ \A id \in Ids \ (Known \ {m.speaker}) : TasksAfter(id) = pending[id]
             /\ taskSeq' = taskSeq + Cardinality(Known \ {m.speaker})
             /\ OrderAfter = queue \o SelectSeq(philosopherIds, NewlyQueued)]_vars

\* a philosopher's broadcast that also names a recipient came while another
\* philosopher was queued: the two others have one task more, the speaker
\* has none
C14_Witness ==
    /\ extCalls = 2
    /\ lastCall.op = "enqueueResponsesFromMessage"
    /\ ~lastCall.seen
    /\ lastCall.message.speaker = "laozi"
    /\ lastCall.message.recipients = <<"mozi", All>>
    /\ queue = <<"mozi", "laozi", "confucius">>
    /\ Len(pending["mozi"]) = 3
    /\ Len(pending["laozi"]) = 1
    /\ Len(pending["confucius"]) = 1

\* the philosopher that holds, after the step, the task with serial number k
HolderOf(k) ==
    CHOOSE id \in Ids : \E i \in DOMAIN TasksAfter(id) : TasksAfter(id)[i].id = k

\* the philosophers the tasks of the step were made for, in order of creation
CreatedFor == [k \in 1..(taskSeq' - taskSeq) |-> HolderOf(taskSeq + k)]

\* C15: for a message with an unprocessed id and an explicit recipient list,
\* enqueueResponsesFromMessage makes tasks exactly for the recipients that
\* are philosophers other than the speaker, one per occurrence and in the
\* order of the list; the speaker gets none; philosophers not yet queued
\* enter the queue in list order; without such a recipient neither the
\* queue nor pending changes and no turn starts.
C15_ExplicitRecipients ==
    [][(FreshMessage /\ All \notin Range(lastCall'.message.recipients)) =>
          LET m == lastCall'.message
              Valid(id) == id \in Known /\ id # m.speaker
              NotQueued(id) == id \notin Range(queue)
              valid == SelectSeq(m.recipients, Valid)
          IN /\ CreatedFor = valid
             /\ \A id \in Ids :
                   /\ IsPrefix(pending[id], TasksAfter(id))
                   /\ Len(TasksAfter(id)) = Len(pending[id]) + Count(valid, id)
                   /\ \A i \in DOMAIN TasksAfter(id) :
                         i > Len(pending[id]) =>
                             /\ TasksAfter(id)[i].trigger = m
                             /\ TasksAfter(id)[i].philosopherId = id
             /\ TasksAfter(m.speaker) = pending[m.speaker]
             /\ OrderAfter = queue \o Distinct(SelectSeq(valid, NotQueued))
             /\ valid = <<>> =>
                   /\ queue' = queue
                   /\ pending' = pending
                   /\ inflight' = inflight
                   /\ m.id \in processedMessages']_vars

\* the list <<mozi, confucius, laozi, mozi>> of confucius queued mozi (two
\* tasks) and laozi (one) in that order, and then a message without a
\* philosopher other than its speaker changed nothing
C15_Witness ==
    /\ extCalls = 2
    /\ isPaused
    /\ lastCall.op = "enqueueResponsesFromMessage"
    /\ ~lastCall.seen
    /\ lastCall.message.recipients = <<"confucius", Stranger>>
    /\ MsgId(4) \in processedMessages
    /\ queue = <<"mozi", "laozi">>
    /\ Len(pending["mozi"]) = 2
    /\ Len(pending["laozi"]) = 1
    /\ pending["confucius"] = <<>>
    /\ taskSeq = 3

\* the buckets a stored message is meant for: its recipients and 'all'
TargetsOf(m) == Range(m.recipients) \cup {All}

\* what has been appended to a bucket, in order
AppendsTo(key) ==
    LET Meant(m) == key \in TargetsOf(m)
        ms == SelectSeq(appended, Meant)
    IN [i \in DOMAIN ms |-> MemoryEntry(ms[i])]

PushStep == appended' # appended

\* the message stored by the step
Pushed == appended'[Len(appended')]

\* the bucket after the step is the bucket before with one entry of m at
\* the end, cut at the front to max
AppendedOnce(key, m) ==
    LET old == Bucket(memories.store, key)
        new == Bucket(memories'.store, key)
        len == IF Len(old) < memories.max THEN Len(old) + 1 ELSE memories.max
    IN /\ Len(new) = len
       /\ new[len] = MemoryEntry(m)
       /\ \A i \in 1..(len - 1) : new[i] = old[Len(old) - (len - 1) + i]

\* C17: pushMemoryEntry(state, message) changes exactly the buckets of the
\* recipients and the bucket 'all' (only 'all' when there is no recipient),
\* making a bucket for a key that had none; every other bucket, the
\* speaker's own included when it is not a recipient, and max stay as they
\* were, and so does everything outside the store.
C17_PushFrame ==
    [][PushStep =>
          /\ DOMAIN memories'.store = DOMAIN memories.store \cup TargetsOf(Pushed)
          /\ \A key \in TargetsOf(Pushed) : AppendedOnce(key, Pushed)
          /\ \A key \in DOMAIN memories.store \ TargetsOf(Pushed) :
                memories'.store[key] = memories.store[key]
          /\ Pushed.recipients = <<>> =>
                \A key \in DOMAIN memories.store \ {All} :
                    memories'.store[key] = memories.store[key]
          /\ memories'.max = memories.max
          /\ StNext = [St EXCEPT !.memories = memories']]_vars

\* a message without recipients, of mozi, and then a message to an unknown
\* key were stored: mozi's bucket is empty, the unknown key has a bucket
C17_Witness ==
    /\ Len(appended) = 2
    /\ appended[1].speaker = "mozi"
    /\ appended[1].recipients = <<>>
    /\ appended[2].recipients = <<"confucius", Stranger>>
    /\ memories.store["mozi"] = <<>>
    /\ Stranger \in DOMAIN memories.store
    /\ memories.store[Stranger] = <<MemoryEntry(appended[2])>>
    /\ memories.store["confucius"] = <<MemoryEntry(appended[2])>>
    /\ Len(memories.store[All]) = (IF memories.max = 1 THEN 1 ELSE 2)

\* the replies the step has emitted
NewReplies ==
    {log'[i].msg : i \in {j \in EntriesOf(log', "message") : j > Len(log)}}

\* C18: every reply the scheduler emits is recorded in the memory store, in
\* the bucket of each of its recipients and in the bucket 'all': after the
\* step that emits it, it is the latest entry of each of them.
C18_ReplyRecorded ==
    [][\A m \in NewReplies :
          \A key \in Range(m.recipients) \cup {All} :
              getLatestFor(memories', key) = MemoryEntry(m)]_vars

\* C19: storing one message adds exactly one entry for it to each target
\* bucket, however often a key occurs in its recipients: for
\* pushMemoryEntry, and for the scheduler storing a reply in the buckets of
\* its recipients.
C19_OneEntryPerBucket ==
    [][/\ PushStep => \A key \in TargetsOf(Pushed) : AppendedOnce(key, Pushed)
       /\ \A m \in NewReplies :
             \A key \in Range(m.recipients) : AppendedOnce(key, m)]_vars

\* the tasks a philosopher holds: pending, or in the batch of its turn
TasksOf(id) ==
    {pending[id][i] : i \in DOMAIN pending[id]}
        \cup UNION {Range(turn.tasks) : turn \in {t \in inflight : t.who = id}}

\* the message is in the bucket of the key
Remembers(key, m) == MemoryEntry(m) \in Range(getHistoryFor(memories, key))

\* C20: a message whose recipients are <<'all'>> is stored by
\* pushMemoryEntry in the bucket 'all' only, once, and in no philosopher's
\* own bucket, while enqueueResponsesFromMessage makes a task of it for every
\* philosopher other than the speaker; so a philosopher holds tasks whose
\* trigger is not in its own history.
C20_BroadcastOnlyInAll ==
    /\ [][/\ (PushStep /\ Pushed.recipients = <<All>>) =>
               (/\ AppendedOnce(All, Pushed)
                /\ DOMAIN memories'.store = DOMAIN memories.store
                /\ \A key \in DOMAIN memories.store \ {All} :
                      memories'.store[key] = memories.store[key])
          /\ (FreshMessage /\ lastCall'.message.recipients = <<All>>) =>
               (\A id \in Known \ {lastCall'.message.speaker} :
                    OneTaskMore(id, lastCall'.message))]_vars
    /\ [](\A id \in Known : \A task \in TasksOf(id) :
             task.trigger.recipients = <<All>> => ~Remembers(id, task.trigger))

\* laozi's broadcast was stored and handed to the scheduler: it is in 'all',
\* confucius and mozi hold a task for it and do not have it in their buckets
C20_Witness ==
    \E m \in Range(appended) :
        /\ m.speaker = "laozi"
        /\ m.recipients = <<All>>
        /\ Remembers(All, m)
        /\ \A id \in {"confucius", "mozi"} :
              /\ \E task \in TasksOf(id) : task.trigger = m
              /\ ~Remembers(id, m)

IsSuffix(a, b) == Len(a) <= Len(b) /\ SubSeq(b, Len(b) - Len(a) + 1, Len(b)) = a

\* C21: getHistoryFor returns the entries of the bucket oldest first (a
\* suffix of what was appended to the key, in append order) and the empty
\* list for a key without a bucket; getLatestFor returns the entry appended
\* last to the key, also after evictions, and null (NoMsg) when nothing was
\* appended or the key has no bucket.
C21_HistoryLatest ==
    \A key \in Ids :
        LET h == getHistoryFor(memories, key)
            a == AppendsTo(key)
        IN /\ IsSuffix(h, a)
           /\ Len(h) = (IF Len(a) < memories.max THEN Len(a) ELSE memories.max)
           /\ key \notin DOMAIN memories.store =>
                 (h = <<>> /\ getLatestFor(memories, key) = NoMsg)
           /\ getLatestFor(memories, key) =
                 (IF a = <<>> THEN NoMsg ELSE a[Len(a)])

\* a bucket with a cap of 2 has evicted its oldest entry, holds two
\* different entries, the latest being the last one appended, while another
\* key has no bucket
C21_Witness ==
    /\ memories.max = 2
    /\ Len(AppendsTo(All)) = 3
    /\ Len(getHistoryFor(memories, All)) = 2
    /\ getHistoryFor(memories, All)[1] # getHistoryFor(memories, All)[2]
    /\ getLatestFor(memories, All) = MemoryEntry(appended[3])
    /\ Stranger \notin DOMAIN memories.store
    /\ getLatestFor(memories, Stranger) = NoMsg

\* a list without its last element
Front(list) == SubSeq(list, 1, Len(list) - 1)

\* the speakers of the triggers of a batch, a trigger id counted with the
\* last task queued under it
SpeakersById(tasks) ==
    {tasks[i].trigger.speaker :
        i \in {k \in DOMAIN tasks :
                  \A j \in DOMAIN tasks : j > k => tasks[j].trigger.id # tasks[k].trigger.id}}

\* the ids of the triggers of a batch identify the triggers (message ids
\* are unique)
UniqueTriggerIds(tasks) ==
    \A i, j \in DOMAIN tasks :
        tasks[i].trigger.id = tasks[j].trigger.id => tasks[i].trigger = tasks[j].trigger

\* C22: when the backend call of a turn resolves, the reply's speaker is the
\* philosopher of the batch; its recipients are the addressees the parser
\* returned followed by 'moderator' when the parser returned some, and
\* otherwise the speakers of the batch's triggers, each once, followed by
\* 'moderator' (a trigger id counts once, with the last trigger queued under
\* it; with unique message ids these are the speakers of all triggers).
C22_ReplyRecipients ==
    [][\A turn \in inflight, addressees \in ParsedAddressees, elapsed \in {0, 1} :
          (/\ turn \notin inflight'
           /\ NewReplies # {}
           /\ ResolveOf(turn, addressees, elapsed)) =>
              \A m \in NewReplies :
                  LET speakers == {turn.tasks[i].trigger.speaker : i \in DOMAIN turn.tasks}
                  IN /\ m.speaker = turn.who
                     /\ m.recipients[Len(m.recipients)] = Moderator
                     /\ addressees # <<>> => Front(m.recipients) = addressees
                     /\ addressees = <<>> =>
                           /\ Range(Front(m.recipients)) = SpeakersById(turn.tasks)
                           /\ Len(Front(m.recipients)) =
                                  Cardinality(SpeakersById(turn.tasks))
                           /\ UniqueTriggerIds(turn.tasks) =>
                                  Range(Front(m.recipients)) = speakers]_vars

\* laozi, whose batch was triggered by the moderator, got a reply addressed
\* by the parser to mozi and confucius
C22_Witness ==
    \E i \in EntriesOf(log, "message") :
        /\ log[i].msg.recipients = <<"mozi", "confucius", Moderator>>
        /\ log[i].msg.speaker = "laozi"

\* mozi, whose batch holds two tasks triggered by laozi's message, got a
\* reply without parsed addressees: it goes to laozi and the moderator
C22_WitnessFallback ==
    \E i \in EntriesOf(log, "message") :
        /\ log[i].msg.recipients = <<"laozi", Moderator>>
        /\ log[i].msg.speaker = "mozi"
        /\ Len(log[i].batch) = 2

\* the known philosophers other than its speaker that a message names
NamedIn(m) == {id \in Range(m.recipients) : id \in Known /\ id # m.speaker}

\* C23: after every turn that ends with a reply, each known philosopher
\* other than the speaker that the reply names as a recipient has one new
\* task triggered by the reply, and those that were not queued are appended
\* to the queue in the order of the recipients.
C23_Cascade ==
    [][\A m \in NewReplies :
          LET NewlyQueued(id) ==
                  id \in Known /\ id # m.speaker /\ id \notin Range(queue)
          IN /\ \A id \in NamedIn(m) : OneTaskMore(id, m)
             /\ OrderAfter = queue \o Distinct(SelectSeq(m.recipients, NewlyQueued))]_vars

\* the place of a philosopher in a list without repetitions
Pos(list, id) == CHOOSE i \in DOMAIN list : list[i] = id

\* the reply names two different known philosophers, neither its speaker,
\* and then the moderator
NamesTwo(m) ==
    /\ Len(m.recipients) = 3
    /\ m.recipients[1] # m.recipients[2]
    /\ {m.recipients[1], m.recipients[2]} \subseteq Known \ {m.speaker}

QueuedAhead(b, a) ==
    /\ b \in Range(queue)
    /\ a \in Range(queue) => Pos(queue, b) < Pos(queue, a)

C24_WitnessQueued ==
    \E i \in EntriesOf(log, "message"), j, k \in EntriesOf(log, "call") :
        /\ i < j /\ j < k
        /\ log[i].msg.speaker = "confucius"
        /\ log[i].msg.recipients = <<"mozi", "laozi", Moderator>>
        /\ log[j].who = "laozi" /\ Len(log[j].batch) = 2
        /\ log[k].who = "mozi" /\ Len(log[k].batch) = 2

\* C25: if the scheduler is not paused forever and every backend call
\* settles, every philosopher in the queue eventually starts a turn, also
\* while replies keep adding tasks and philosophers to the queue.
C25_Progress ==
    \A id \in Known :
        ([]<>(~isPaused)) => ((id \in Range(queue)) ~> TurnOf(id))

\* the last philosopher of the queue has started its turn after two replies
\* had added tasks, and the scheduler had been paused in between
C25_Witness ==
    /\ Replies(log) >= 2
    /\ TurnOf("mozi")
    /\ \E turn \in inflight : Len(turn.tasks) >= 2
    /\ isPaused

\* C26: the batch of a turn is fixed when the turn starts. In a step during
\* which X stays mid-turn, X's batch is unchanged; a task made for X in the
\* step is put at the end of pending[X] and is not in the batch; if nothing
\* was pending for X, X enters the queue behind everyone queued, so X is
\* mid-turn and queued at once. The new tasks are the batch of a second
\* turn of X (C26_Witness).
C26_BatchFixed ==
    [][\A turn \in inflight :
          (\E t \in inflight' : t.call = turn.call) =>
              LET X == turn.who
                  added == (Len(pending[X]) + 1)..Len(pending'[X])
              IN /\ {t \in inflight' : t.who = X} = {turn}
                 /\ IsPrefix(pending[X], pending'[X])
                 /\ IsPrefix(queue, queue')
                 /\ \A i \in added :
                       /\ pending'[X][i].id \in NewTaskIds
                       /\ pending'[X][i].id \notin TaskIds(turn.tasks)
                 /\ Cardinality({k \in NewTaskIds : HolderOf(k) = X}) = Cardinality(added)
                 /\ added # {} =>
                       /\ X \in Range(queue')
                       /\ X \in Active'
                       /\ pending[X] = <<>> => Pos(queue', X) > Len(queue)]_vars

\* laozi was addressed again while its first turn was waiting for the
\* backend; its second turn is now running with the one task of the second
\* call, and its first turn had the one task of the first call
C26_Witness ==
    \E i, j \in EntriesOf(log, "call") :
        /\ i < j
        /\ log[i].who = "laozi" /\ log[j].who = "laozi"
        /\ log[i].batch = <<1>>
        /\ Len(log[j].batch) = 1
        /\ \E turn \in inflight : turn.call = log[j].call
        /\ extCalls = 2

\* C27: whenever a turn starts, its philosopher was at the head of the queue
\* (of the queue before the step, or, when that was empty, of what the step
\* had queued), and the start takes exactly that philosopher out of the
\* queue and all its tasks out of pending into the batch, in the one step;
\* the places and the tasks of all others are unchanged, but for tasks and
\* philosophers the step itself has added behind them. In a step that makes
\* no task the queue loses its head, pending loses the head's list, and
\* nothing else of the two changes.
C27_StartTakesHead ==
    [][\A turn \in Started :
          LET X == turn.who
          IN /\ queue # <<>> => X = queue[1]
             /\ IsPrefix(queue, <<X>> \o queue')
             /\ X \notin Range(queue')
             /\ pending'[X] = <<>>
             /\ IsPrefix(pending[X], turn.tasks)
             /\ \A id \in Ids \ {X} :
                   /\ IsPrefix(pending[id], pending'[id])
                   /\ \A i \in (Len(pending[id]) + 1)..Len(pending'[id]) :
                         pending'[id][i].id \in NewTaskIds
             /\ \A i \in (Len(pending[X]) + 1)..Len(turn.tasks) :
                   turn.tasks[i].id \in NewTaskIds
             /\ taskSeq' = taskSeq =>
                   /\ queue' = Tail(queue)
                   /\ turn.tasks = pending[X]
                   /\ pending' = [pending EXCEPT ![X] = <<>>]]_vars

\* mozi's turn has started from the head of a queue of two when laozi's turn
\* ended; confucius stays queued with its task
C27_Witness ==
    /\ TurnOf("mozi")
    /\ queue = <<"confucius">>
    /\ Len(pending["confucius"]) = 1
    /\ \E i \in EntriesOf(log, "error") : log[i].who = "laozi"
    /\ genCalls = 2

\* C28: no stall. In every state between two handlers (no scheduler code is
\* running), a scheduler that is not paused and whose lock is free has an
\* empty queue.
C28_NoStall ==
    (~isPaused /\ ~globallyProcessing) => queue = <<>>

\* the scheduler is idle, unpaused and unlocked, after turns that were
\* started by an enqueue call and by the end of a turn
C28_Witness ==
    /\ ~isPaused
    /\ ~globallyProcessing
    /\ queue = <<>>
    /\ genCalls >= 2
    /\ inflight = {}

\* runQueue for the philosopher would return at one of its guards
GuardMiss(id) ==
    isPaused \/ globallyProcessing \/ processing[id] \/ pending[id] = <<>>

\* a handler result in which no turn has started and nothing but the queue,
\* the pending tasks and their display has changed
NothingStarted(t) ==
    /\ t.globallyProcessing = globallyProcessing
    /\ t.processing = processing
    /\ t.currentSpeaker = currentSpeaker
    /\ t.processedMessages = processedMessages
    /\ t.memories = memories
    /\ t.inflight = inflight
    /\ t.genCalls = genCalls
    /\ t.log = log

\* C29: a guard miss is a no-op. In every reachable state, runQueue for a
\* philosopher while the scheduler is paused, the lock is held, the
\* philosopher is mid-turn or has nothing pending, and drainQueues while
\* the scheduler is paused, the lock is held or the queue is empty, return
\* the hook state unchanged: queue, pending, lock, speaker indicator,
\* processed ids and memory are what they were, and no backend call is
\* made. The drain that ends enqueueWithPriority in such a state starts no
\* turn.
C29_GuardMissNoOp ==
    /\ \A id \in Ids : GuardMiss(id) => runQueue(St, id) = St
    /\ (isPaused \/ globallyProcessing \/ queue = <<>>) => drainQueues(St) = St
    /\ \A c \in EnqueueCalls :
          (isPaused \/ globallyProcessing) =>
              NothingStarted(enqueueWithPriority(St, c[1], c[2]))

\* the lock is held and the scheduler is not paused while the head of the
\* queue has tasks and is not mid-turn: the drain of the second enqueue
\* call met the lock, and only the lock keeps the head from running
C29_Witness ==
    /\ ~isPaused
    /\ globallyProcessing
    /\ extCalls = 2
    /\ lastCall.op = "enqueueWithPriority"
    /\ genCalls = 1
    /\ queue # <<>>
    /\ pending[queue[1]] # <<>>
    /\ ~processing[queue[1]]

\* the scheduler is paused with a free lock and a queued philosopher: the
\* drain of the enqueue call met the pause
C29_WitnessPaused ==
    /\ isPaused
    /\ ~globallyProcessing
    /\ extCalls = 1
    /\ queue # <<>>
    /\ genCalls = 0

\* C30: the lock alternates between free and held by one philosopher. The
\* writes to the lock are, in order, acquire(X1), release(X1), acquire(X2),
\* release(X2), ...: it is acquired only when free, every acquisition is
\* followed by the release of the same philosopher before the next
\* acquisition, so the holder never changes, and is never taken again by
\* the same philosopher, without a release in between; the lock is held
\* exactly when the last write is an acquisition, by the philosopher shown
\* as the current speaker.
C30_LockAlternates ==
    /\ \A i \in DOMAIN lockTrace :
          IF i % 2 = 1 THEN lockTrace[i].op = "acquire"
          ELSE lockTrace[i].op = "release" /\ lockTrace[i].who = lockTrace[i - 1].who
    /\ globallyProcessing <=> Len(lockTrace) % 2 = 1
    /\ globallyProcessing =>
          /\ currentSpeaker = lockTrace[Len(lockTrace)].who
          /\ processing[currentSpeaker]
          /\ \E turn \in inflight : turn.who = currentSpeaker
    /\ ~globallyProcessing => currentSpeaker = Null /\ inflight = {}

\* the lock went from laozi to mozi and from mozi to mozi again, each time
\* through a release in the same handler, and is held by mozi
C30_Witness ==
    /\ Len(lockTrace) = 5
    /\ lockTrace[1].who = "laozi"
    /\ lockTrace[3].who = "mozi"
    /\ lockTrace[5].who = "mozi"
    /\ globallyProcessing

\* C31: a turn that ends by a failure of its backend call stores nothing,
\* fans nothing out and makes no task: the memory store and the processed
\* ids are unchanged by the step, and the queue and the pending lists are
\* what they were, but for the head and its tasks when the finally block
\* has started the head's turn.
C31_FailureLeavesState ==
    [][\A turn \in inflight :
          (/\ turn \notin inflight'
           /\ Entries(log', "error", turn.call) # {}
           /\ RejectOf(turn)) =>
              /\ memories' = memories
              /\ processedMessages' = processedMessages
              /\ taskSeq' = taskSeq
              /\ OrderAfter = queue
              /\ \A id \in Ids : TasksAfter(id) = pending[id]
              /\ Started = {} => (queue' = queue /\ pending' = pending)]_vars

\* a turn failed after an earlier turn had stored its reply: the store holds
\* that reply, and the philosopher queued behind the failed turn is waiting
\* with its task in a paused scheduler
C31_Witness ==
    \E i, j \in DOMAIN log :
        /\ i < j /\ j = Len(log)
        /\ log[i].ev = "message"
        /\ log[j].ev = "error"
        /\ getLatestFor(memories, Moderator) = MemoryEntry(log[i].msg)
        /\ queue # <<>>
        /\ isPaused

\* the serial numbers of a task list grow: the tasks are in the order in
\* which they were made
InArrivalOrder(tasks) ==
    \A i, j \in DOMAIN tasks : i < j => tasks[i].id < tasks[j].id

\* the place of the first task of a batch that carries the trigger id
FirstWith(tasks, id) ==
    CHOOSE i \in DOMAIN tasks :
        /\ tasks[i].trigger.id = id
        /\ \A j \in DOMAIN tasks : j < i => tasks[j].trigger.id # id

\* C32: every pending list, and every batch taken from one, holds its tasks
\* in arrival order; the triggers that make up the composite stimulus of a
\* batch carry each trigger id of the batch exactly once, in the order in
\* which the ids occur first among the tasks of the batch.
C32_ArrivalOrderAndStimulus ==
    /\ \A id \in Ids : InArrivalOrder(pending[id])
    /\ \A turn \in inflight :
          LET stimulus == uniqueTriggers(turn.tasks)
              ids == {turn.tasks[i].trigger.id : i \in DOMAIN turn.tasks}
          IN /\ InArrivalOrder(turn.tasks)
             /\ \A id \in ids :
                   Cardinality({k \in DOMAIN stimulus : stimulus[k].id = id}) = 1
             /\ \A k \in DOMAIN stimulus : stimulus[k].id \in ids
             /\ \A k, n \in DOMAIN stimulus :
                   k < n => FirstWith(turn.tasks, stimulus[k].id)
                              < FirstWith(turn.tasks, stimulus[n].id)

\* mozi's batch has three tasks, the first triggered by one message and the
\* other two by another: its stimulus has the two triggers, in that order
C32_Witness ==
    \E turn \in inflight :
        /\ turn.who = "mozi"
        /\ Len(turn.tasks) = 3
        /\ turn.tasks[1].trigger.id = MsgId(2)
        /\ turn.tasks[2].trigger.id = MsgId(1)
        /\ turn.tasks[3].trigger.id = MsgId(1)
        /\ Len(uniqueTriggers(turn.tasks)) = 2
        /\ uniqueTriggers(turn.tasks)[1].id = MsgId(2)

\* addressee lists without a philosopher: the empty list, an unknown id, an
\* unknown id with the two sentinels
UnknownOnly == {<<>>, <<Stranger>>, <<Stranger, Moderator, All>>}

\* C33: in every reachable state, enqueueWithPriority with an addressee list
\* that names no philosopher (the empty list included) leaves the queue,
\* every pending list, the depths and the displayed order as they are,
\* makes no task and starts no turn.
C33_UnknownOnlyNoOp ==
    \A addressees \in UnknownOnly, trigger \in Triggers :
        LET t == enqueueWithPriority(St, addressees, trigger)
        IN /\ t.queue = queue
           /\ t.pending = pending
           /\ t.queueDepths = queueDepths
           /\ t.queueOrder = queueOrder
           /\ t.taskSeq = taskSeq
           /\ t.inflight = inflight
           /\ t.genCalls = genCalls
           /\ t.globallyProcessing = globallyProcessing
           /\ t.currentSpeaker = currentSpeaker

\* the caller's second call had the empty list, while two philosophers
\* were queued in a paused scheduler: they are queued as before
C33_Witness ==
    /\ extCalls = 2
    /\ lastCall.op = "enqueueWithPriority"
    /\ lastCall.addressees = <<>>
    /\ isPaused
    /\ Len(queue) = 2
    /\ queueOrder = queue
    /\ genCalls = 0

\* C34: while the backend call of a turn has not settled, the lock stays
\* held by the turn's philosopher and no other turn starts, whatever is
\* enqueued, paused or resumed: every step in which the call does not
\* settle leaves the lock, the processing flags, the speaker indicator and
\* the turn as they are and makes no backend call; nothing but the
\* settling of the call frees the lock.
C34_HungCallHoldsLock ==
    [][/\ \A turn \in inflight :
             (\E t \in inflight' : t.call = turn.call) =>
                 /\ globallyProcessing /\ globallyProcessing'
                 /\ currentSpeaker' = turn.who
                 /\ processing' = processing
                 /\ inflight' = inflight
                 /\ genCalls' = genCalls
                 /\ lockTrace' = lockTrace
       /\ (globallyProcessing /\ ~globallyProcessing') => inflight' = {}]_vars

\* laozi's call has not settled while the scheduler, after the second
\* enqueue call, has two philosophers waiting and is not paused
C34_Witness ==
    /\ ~isPaused
    /\ extCalls = 2
    /\ genCalls = 1
    /\ lockTrace = <<[op |-> "acquire", who |-> "laozi"]>>
    /\ TurnOf("laozi")
    /\ Len(queue) = 2

\* the ids of the tasks that are pending, and of those sent in a batch
PendingIds(pend) == UNION {TaskIds(pend[id]) : id \in Ids}

BatchIds(l) == UNION {Range(l[j].batch) : j \in EntriesOf(l, "call")}

\* no task id occurs twice in the pending lists
PendingOnce(pend) ==
    /\ \A id \in Ids : Cardinality(TaskIds(pend[id])) = Len(pend[id])
    /\ \A a, b \in Ids : a # b => TaskIds(pend[a]) \cap TaskIds(pend[b]) = {}

\* no task id occurs twice in the batches of the backend calls
BatchedOnce(l) ==
    /\ \A j \in EntriesOf(l, "call") : Cardinality(Range(l[j].batch)) = Len(l[j].batch)
    /\ BatchesDisjoint(l)

\* C35: every task is consumed by exactly one turn of its own philosopher.
\* In every reachable state each task made so far is in exactly one place:
\* once in the pending list of its philosopher, or in the batch of exactly
\* one backend call, which was made for its philosopher; so a task leaves
\* pending only into the batch of a turn of its philosopher.
C35_TaskConsumedOnce ==
    /\ PendingIds(pending) \cup BatchIds(log) = 1..taskSeq
    /\ PendingIds(pending) \cap BatchIds(log) = {}
    /\ PendingOnce(pending)
    /\ BatchedOnce(log)
    /\ \A id \in Known : \A i \in DOMAIN pending[id] :
          pending[id][i].philosopherId = id
    /\ \A id \in Ids \ Known : pending[id] = <<>>
    /\ \A turn \in inflight :
          /\ \A i \in DOMAIN turn.tasks : turn.tasks[i].philosopherId = turn.who
          /\ \E j \in Entries(log, "call", turn.call) :
                /\ log[j].who = turn.who
                /\ log[j].batch = [i \in DOMAIN turn.tasks |-> turn.tasks[i].id]
    /\ \A j \in EntriesOf(log, "call") :
          (\E turn \in inflight : turn.call = log[j].call)
              \/ Entries(log, "message", log[j].call) \cup Entries(log, "error", log[j].call) # {}

\* one task went with a batch that failed, one is in the batch of the turn
\* that waits for the backend, and others are pending
C35_Witness ==
    /\ EntriesOf(log, "error") # {}
    /\ \E turn \in inflight :
          \E i \in EntriesOf(log, "error") :
              /\ log[i].who # turn.who
              /\ \E id \in Known \ {turn.who, log[i].who} : Len(pending[id]) >= 1
    /\ taskSeq >= 4

\* C36: the lock and the flags agree in every reachable state: the
\* processing flag of X is set if and only if the global lock is held and
\* the speaker indicator is X; at most one processing flag is set; when the
\* lock is free no flag is set and the speaker indicator is null.
C36_LockAndFlagsAgree ==
    /\ \A X \in Ids : processing[X] <=> (globallyProcessing /\ currentSpeaker = X)
    /\ Cardinality({X \in Ids : processing[X]}) <= 1
    /\ ~globallyProcessing =>
          /\ \A X \in Ids : ~processing[X]
          /\ currentSpeaker = Null
    /\ globallyProcessing => currentSpeaker \in Known

\* the lock passed from one philosopher to another: the flag of the second
\* is set, the flag of the first is cleared
C36_Witness ==
    /\ Len(lockTrace) = 3
    /\ lockTrace[1].who # lockTrace[3].who
    /\ processing[lockTrace[3].who]
    /\ ~processing[lockTrace[1].who]
    /\ currentSpeaker = lockTrace[3].who

\* the list with n copies of an entry appended
RECURSIVE WithCopies(_, _, _)
WithCopies(list, entry, n) ==
    IF n = 0 THEN list ELSE WithCopies(Append(list, entry), entry, n - 1)

CallsOf(l, id) == {i \in EntriesOf(l, "call") : l[i].who = id}

\* the philosophers the prompt was for
Prompted ==
    IF All \in Range(lastCall.message.recipients) THEN Known
    ELSE Range(lastCall.message.recipients) \cap Known

TurnsDone ==
    /\ genCalls = Cardinality(Prompted)
    /\ \A id \in Known :
          Cardinality(CallsOf(log, id)) = (IF id \in Prompted THEN 1 ELSE 0)

\* nobody is queued, no turn is in flight and the lock is free
Quiescent == queue = <<>> /\ inflight = {} /\ ~globallyProcessing

Asked(message) ==
    IF All \in Range(message.recipients) THEN Known \ {message.speaker}
    ELSE (Range(message.recipients) \cap Known) \ {message.speaker}

\* the step leaves the queues, the turns and the store as they are
SchedulerUntouched ==
    UNCHANGED <<queue, pending, processing, globallyProcessing, currentSpeaker,
                queueDepths, queueOrder, memories, isPaused, inflight,
                genCalls, taskSeq, log>>

\* C39: enqueueResponsesFromMessage records the id of a message before it
\* looks for targets. After a call the id is in the processed set whatever
\* the message asked for; a message that asks nobody changes the processed
\* set and nothing else; and a call with an id that is already recorded
\* changes nothing, also when the message of that call asks a philosopher
\* and the message recorded under the id asked nobody.
C39_ProcessedBeforeTargets ==
    [][extCalls' # extCalls =>
          LET message == lastCall'.message
          IN /\ message.id \in processedMessages'
             /\ (~lastCall'.seen /\ Asked(message) = {}) =>
                   /\ processedMessages' = processedMessages \cup {message.id}
                   /\ message.id \notin processedMessages
                   /\ SchedulerUntouched
             /\ lastCall'.seen =>
                   /\ SchedulerUntouched
                   /\ processedMessages' = processedMessages]_vars

\* the only message handled so far asked nobody (nothing was ever queued);
\* a message with the same id that asks confucius came next and was dropped
C39_Witness ==
    /\ lastCall.op = "enqueueResponsesFromMessage"
    /\ lastCall.seen
    /\ Asked(lastCall.message) = {"confucius"}
    /\ processedMessages = {lastCall.message.id}
    /\ extCalls = 2
    /\ queue = <<>>
    /\ genCalls = 0
    /\ taskSeq = 0

\* the tasks of a list that were made for a trigger id
WithTrigger(tasks, id) == {i \in DOMAIN tasks : tasks[i].trigger.id = id}

\* C40: enqueueWithPriority does not look at trigger ids. Every call makes
\* one task per occurrence of a known addressee X, behind what was pending
\* for X, whether or not X already holds a task of that trigger and whether
\* or not the trigger's id is in the processed set, which the call neither
\* reads nor changes: a second call with the same trigger leaves X with one
\* more task of that trigger. A repeated id is dropped only by
\* enqueueResponsesFromMessage, which then makes no task.
C40_NoDedupeByTrigger ==
    [][extCalls' # extCalls =>
          /\ lastCall'.op = "enqueueWithPriority" =>
                /\ processedMessages' = processedMessages
                /\ \A id \in Known :
                      LET n == Count(lastCall'.addressees, id)
                          after == TasksAfter(id)
                      IN /\ Len(after) = Len(pending[id]) + n
                         /\ IsPrefix(pending[id], after)
                         /\ \A i \in (Len(pending[id]) + 1)..Len(after) :
                               after[i].trigger = lastCall'.message
                         /\ Cardinality(WithTrigger(after, lastCall'.message.id))
                               = Cardinality(WithTrigger(pending[id],
                                                         lastCall'.message.id)) + n
          /\ (lastCall'.op = "enqueueResponsesFromMessage" /\ lastCall'.seen) =>
                /\ taskSeq' = taskSeq
                /\ pending' = pending]_vars

\* paused, enqueueWithPriority was called twice with the moderator's message
\* for laozi and mozi: each of them has two pending tasks of that one
\* trigger, and the depth shown is 2
C40_Witness ==
    /\ isPaused
    /\ extCalls = 2
    /\ lastCall.op = "enqueueWithPriority"
    /\ processedMessages = {}
    /\ taskSeq = 4
    /\ Len(pending["laozi"]) = 2
    /\ pending["laozi"][1].trigger = pending["laozi"][2].trigger
    /\ pending["laozi"][1].id # pending["laozi"][2].id
    /\ queueDepths["laozi"] = 2
    /\ genCalls = 0

====
